---------------------------- MODULE Spec2Model ----------------------------
(***************************************************************************)
(* Model of the Taubert servo drivers (src/src/taubert/motor/servo.py),    *)
(* their group managers and the three-wheel drive                         *)
(* (src/src/taubert/movement/omni_drive.py).                               *)
(*                                                                         *)
(* A driver object is a record of its fields.  Its methods are operators   *)
(* that take the record and the state of the serial port and return the    *)
(* new record, the new port state and what the call returned.  The serial  *)
(* port (pyserial) is the environment: opening may fail, every call on an  *)
(* open handle may raise, and the device answers a packet with some bytes  *)
(* that arrive before the driver polls, after it, or never.                *)
(***************************************************************************)
EXTENDS Integers, Sequences, FiniteSets, TLC

VARIABLES
    motor,      \* the STS3215Motor object
    servo,      \* the ServoMotor object
    opened,     \* number of serial.Serial handles created so far
    open,       \* the handles that are open
    closes,     \* the handles close() has been called on
    rxbuf,      \* bytes waiting in the port's receive buffer
    motors,     \* MotorController.motors: the STS3215Motor objects it made
    servos,     \* ServoController.servos: the ServoMotor objects it made
    wheels,     \* OmniDrive.servos: the places in ServoController.servos of
                \* the three objects the drive keeps; empty without a drive
    trace,      \* the calls that the group or drive call that has just
                \* returned made on its drivers, in order
    last        \* the public call that has just returned: its arguments, its
                \* result and its port traffic; NoLast once the caller has
                \* taken the result

vars ==
    <<motor, servo, opened, open, closes, rxbuf, motors, servos, wheels, trace, last>>

-----------------------------------------------------------------------------
(* Bounds of the model *)

MaxOpens == 2
MaxBuf == 6

(* Arguments and environment choices the model enumerates *)

InitIds == {1, 256}
IdArgs == {0, 1, 254, 255}
PositionArgs == {-1, 0, 256, 4095, 4096}
SpeedArgs == {-1, 0, 1023, 1024}

\* What the device may put on the line in answer to one packet: nothing, a
\* four-byte answer, or a six-byte answer carrying 4096 at offsets 4 and 5.
Responses ==
    { <<>>,
      <<255, 255, 1, 2>>,
      <<255, 255, 1, 4, 0, 16>> }

\* The transport call of _send_command that raises, if any.
Faults == {"none", "write", "flush", "in_waiting", "in_waiting2", "read"}

\* What the port and the device do during one _send_command: which transport
\* call raises, what the device answers, and whether the answer arrives
\* before the driver polls ("early") or after it ("late").
EnvChoices ==
    [fault : Faults, resp : Responses, timing : {"early"}]
        \cup [fault : {"none"}, resp : Responses \ {<<>>}, timing : {"late"}]

-----------------------------------------------------------------------------
(* Command codes, servo.py lines 194-199 *)

CMD_WRITE_ID == 1
CMD_SET_POSITION == 3
CMD_SET_SPEED == 5
CMD_READ_POSITION == 2
CMD_READ_SPEED == 4
CMD_STOP == 6

-----------------------------------------------------------------------------
(* Bytes *)

RECURSIVE SumSeq(_)
SumSeq(s) == IF s = <<>> THEN 0 ELSE Head(s) + SumSeq(Tail(s))

IsByte(b) == b \in 0..255

\* int.to_bytes(2, byteorder='little'), for 0 <= n < 65536
to_bytes_le2(n) == <<n % 256, n \div 256>>

\* A variant that reads the two bytes in the other order.
decode_be16(response) == response[5] * 256 + response[6]

\* response[4] + (response[5] << 8), Python's indices being 0-based
decode_le16(response) == response[5] + response[6] * 256

\* A variant that sums the two header bytes as well.
calculate_checksum_headers(data) == (SumSeq(data) + 255 + 255) % 256

\* STS3215Motor._calculate_checksum
calculate_checksum(data) == SumSeq(data) % 256

\* bytearray([...]) raises ValueError unless every element is in range(256)
Framable(motor_id, command, data) ==
    IsByte(motor_id) /\ IsByte(Len(data) + 2) /\ IsByte(command)

\* The packet _send_command builds, lines 274-279
BuildPacket(motor_id, command, data) ==
    LET length == Len(data) + 2
        packet == <<255, 255, motor_id, length, command>> \o data
        checksum == calculate_checksum(SubSeq(packet, 3, Len(packet)))
    IN  packet \o <<checksum>>

-----------------------------------------------------------------------------
(* STS3215Motor *)

\* STS3215Motor.__init__
STS3215Motor(motor_id) ==
    [ motor_id         |-> motor_id,
      is_connected     |-> FALSE,
      current_position |-> 0,
      current_speed    |-> 0,
      serial           |-> 0 ]          \* 0 stands for None

\* The outcome of a call that never reaches _send_command.
NoCall(buf) ==
    [ called |-> FALSE, command |-> 0, data |-> <<>>, calls |-> <<>>,
      wire |-> <<>>, response |-> <<>>, rxbuf |-> buf ]

\* The outcome of _send_command(command, data) that returns None after the
\* transport calls `calls`, with `wire` written and `buf` left to be read.
NoneAfter(command, data, calls, wire, buf) ==
    [ called |-> TRUE, command |-> command, data |-> data, calls |-> calls,
      wire |-> wire, response |-> <<>>, rxbuf |-> buf ]

\* A variant that writes the packet again and polls again when the first
\* poll finds nothing.
transmit_resending(d, buf, command, data, env) ==
    LET packet == BuildPacket(d.motor_id, command, data)
        once   == <<"write", "flush", "in_waiting">>
    IN  IF ~Framable(d.motor_id, command, data)
        THEN NoneAfter(command, data, <<>>, <<>>, buf)
        ELSE IF env.fault # "none"
        THEN NoneAfter(command, data, <<"write">>, <<>>, buf)
        ELSE IF buf = <<>> /\ (env.timing = "late" \/ env.resp = <<>>)
        THEN NoneAfter(command, data, once \o once, <<packet, packet>>,
                       IF env.timing = "late" THEN env.resp ELSE <<>>)
        ELSE [ called |-> TRUE, command |-> command, data |-> data,
               calls |-> once \o <<"in_waiting", "read">>,
               wire |-> <<packet>>, response |-> buf \o env.resp, rxbuf |-> <<>> ]

\* The try block of STS3215Motor._send_command, lines 273-291, under the
\* environment choice env.  The result's response is <<>> where the code
\* returns None.
transmit(d, buf, command, data, env) ==
    LET packet == BuildPacket(d.motor_id, command, data)
        fault  == env.fault
        resp   == env.resp
        atPoll == IF env.timing = "early" THEN buf \o resp ELSE buf
        after  == IF env.timing = "late" THEN resp ELSE <<>>
    IN  IF ~Framable(d.motor_id, command, data)
        THEN NoneAfter(command, data, <<>>, <<>>, buf)
        ELSE IF fault = "write"
        THEN NoneAfter(command, data, <<"write">>, <<>>, buf)
        ELSE IF fault = "flush"
        THEN NoneAfter(command, data, <<"write", "flush">>, <<packet>>, buf \o resp)
        ELSE IF fault = "in_waiting"
        THEN NoneAfter(command, data, <<"write", "flush", "in_waiting">>,
                       <<packet>>, buf \o resp)
        ELSE IF atPoll = <<>>
        THEN NoneAfter(command, data, <<"write", "flush", "in_waiting">>,
                       <<packet>>, after)
        ELSE IF fault = "in_waiting2"
        THEN NoneAfter(command, data,
                       <<"write", "flush", "in_waiting", "in_waiting">>,
                       <<packet>>, buf \o resp)
        ELSE IF fault = "read"
        THEN NoneAfter(command, data,
                       <<"write", "flush", "in_waiting", "in_waiting", "read">>,
                       <<packet>>, buf \o resp)
        ELSE [ called |-> TRUE, command |-> command, data |-> data,
               calls |-> <<"write", "flush", "in_waiting", "in_waiting", "read">>,
               wire |-> <<packet>>, response |-> atPoll, rxbuf |-> after ]

\* A variant without the connection check of lines 269-271.
send_command_no_guard(d, buf, command, data, env) ==
    transmit(d, buf, command, data, env)

\* STS3215Motor._send_command
send_command(d, buf, command, data, env) ==
    IF ~d.is_connected \/ d.serial = 0
    THEN NoneAfter(command, data, <<>>, <<>>, buf)
    ELSE transmit(d, buf, command, data, env)

\* What a public method hands back: the object, the returned value (ret is
\* "True", "False", "None", "int" with the integer in val, or "raise" when
\* an exception leaves the method) and the outcome of its _send_command.
Outcome(d, ret, val, io) == [ d |-> d, ret |-> ret, val |-> val, io |-> io ]

\* A variant that takes the new id before the device has acknowledged it.
set_id_eager(d, buf, new_id, env) ==
    IF new_id < 1 \/ new_id > 254
    THEN Outcome(d, "False", 0, NoCall(buf))
    ELSE LET d1 == [d EXCEPT !.motor_id = new_id]
             io == send_command(d1, buf, CMD_WRITE_ID, <<new_id>>, env)
         IN  Outcome(d1, IF io.response # <<>> THEN "True" ELSE "False", 0, io)

\* STS3215Motor.set_id
set_id(d, buf, new_id, env) ==
    IF new_id < 1 \/ new_id > 254
    THEN Outcome(d, "False", 0, NoCall(buf))
    ELSE LET io == send_command(d, buf, CMD_WRITE_ID, <<new_id>>, env)
         IN  IF io.response # <<>>
             THEN Outcome([d EXCEPT !.motor_id = new_id], "True", 0, io)
             ELSE Outcome(d, "False", 0, io)

\* A variant whose upper bound is off by one.
set_position_off_by_one(d, buf, position, env) ==
    IF position < 0 \/ position > 4096
    THEN Outcome(d, "False", 0, NoCall(buf))
    ELSE LET io == send_command(d, buf, CMD_SET_POSITION, to_bytes_le2(position), env)
         IN  IF io.response # <<>>
             THEN Outcome([d EXCEPT !.current_position = position], "True", 0, io)
             ELSE Outcome(d, "False", 0, io)

\* STS3215Motor.set_position
set_position(d, buf, position, env) ==
    IF position < 0 \/ position > 4095
    THEN Outcome(d, "False", 0, NoCall(buf))
    ELSE LET io == send_command(d, buf, CMD_SET_POSITION, to_bytes_le2(position),
                                env)
         IN  IF io.response # <<>>
             THEN Outcome([d EXCEPT !.current_position = position], "True", 0, io)
             ELSE Outcome(d, "False", 0, io)

\* A variant that records the speed whether or not the device answered.
set_speed_unconditional(d, buf, speed, env) ==
    IF speed < 0 \/ speed > 1023
    THEN Outcome(d, "False", 0, NoCall(buf))
    ELSE LET io == send_command(d, buf, CMD_SET_SPEED, to_bytes_le2(speed), env)
             d1 == [d EXCEPT !.current_speed = speed]
         IN  Outcome(d1, IF io.response # <<>> THEN "True" ELSE "False", 0, io)

\* STS3215Motor.set_speed
set_speed(d, buf, speed, env) ==
    IF speed < 0 \/ speed > 1023
    THEN Outcome(d, "False", 0, NoCall(buf))
    ELSE LET io == send_command(d, buf, CMD_SET_SPEED, to_bytes_le2(speed),
                                env)
         IN  IF io.response # <<>>
             THEN Outcome([d EXCEPT !.current_speed = speed], "True", 0, io)
             ELSE Outcome(d, "False", 0, io)

\* STS3215Motor.get_position
get_position(d, buf, env) ==
    LET io == send_command(d, buf, CMD_READ_POSITION, <<>>, env)
    IN  IF io.response # <<>> /\ Len(io.response) >= 6
        THEN LET position == decode_le16(io.response)
             IN  Outcome([d EXCEPT !.current_position = position], "int", position, io)
        ELSE Outcome(d, "None", 0, io)

\* STS3215Motor.get_speed
get_speed(d, buf, env) ==
    LET io == send_command(d, buf, CMD_READ_SPEED, <<>>, env)
    IN  IF io.response # <<>> /\ Len(io.response) >= 6
        THEN LET speed == decode_le16(io.response)
             IN  Outcome([d EXCEPT !.current_speed = speed], "int", speed, io)
        ELSE Outcome(d, "None", 0, io)

\* STS3215Motor.stop
stop(d, buf, env) ==
    LET io == send_command(d, buf, CMD_STOP, <<>>, env)
    IN  IF io.response # <<>>
        THEN Outcome(d, "True", 0, io)
        ELSE Outcome(d, "False", 0, io)

-----------------------------------------------------------------------------
(* connect and disconnect: the same code in STS3215Motor and ServoMotor *)

\* The outcome of a call that uses the port without _send_command.
PortCall(calls, buf) ==
    [ called |-> FALSE, command |-> 0, data |-> <<>>, calls |-> calls,
      wire |-> <<>>, response |-> <<>>, rxbuf |-> buf ]

\* A variant whose except branch leaves is_connected as it was.
connect_keep_flag(d, buf, port_ok, h) ==
    IF port_ok
    THEN Outcome([d EXCEPT !.serial = h, !.is_connected = TRUE], "True", 0,
                 PortCall(<<"open">>, buf))
    ELSE Outcome(d, "False", 0, PortCall(<<"open">>, buf))

\* connect().  serial.Serial(...) either returns the new handle h or raises;
\* when it raises the assignment to self._serial does not happen.
connect(d, buf, port_ok, h) ==
    IF port_ok
    THEN Outcome([d EXCEPT !.serial = h, !.is_connected = TRUE], "True", 0,
                 PortCall(<<"open">>, buf))
    ELSE Outcome([d EXCEPT !.is_connected = FALSE], "False", 0,
                 PortCall(<<"open">>, buf))

\* disconnect().  No handler surrounds close(): when it raises, the exception
\* leaves the method before is_connected is cleared.
disconnect(d, buf, close_raises) ==
    IF d.serial # 0 /\ d.is_connected
    THEN IF close_raises
         THEN Outcome(d, "raise", 0, PortCall(<<"close">>, buf))
         ELSE Outcome([d EXCEPT !.is_connected = FALSE], "None", 0,
                      PortCall(<<"close">>, buf))
    ELSE Outcome(d, "None", 0, PortCall(<<>>, buf))

-----------------------------------------------------------------------------
(* ServoMotor *)

\* ServoMotor.__init__
ServoMotor(servo_id) ==
    [ servo_id         |-> servo_id,
      is_connected     |-> FALSE,
      current_position |-> 0,
      current_speed    |-> 0,
      serial           |-> 0 ]

\* ServoMotor.set_position(position, speed); has_speed is `speed is not None`
servo_set_position(d, buf, position, has_speed, speed) ==
    LET d1 == [d EXCEPT !.current_position = position]
        d2 == IF has_speed THEN [d1 EXCEPT !.current_speed = speed] ELSE d1
    IN  Outcome(d2, "True", 0, NoCall(buf))

\* ServoMotor.get_position
servo_get_position(d, buf) ==
    Outcome(d, "int", d.current_position, NoCall(buf))

\* ServoMotor.stop
servo_stop(d, buf) == Outcome(d, "True", 0, NoCall(buf))

ServoIds == {1, 2, 3}
ServoPositionArgs == {-1, 2044, 2048, 4096}
ServoSpeedArgs == {0, 7, 1024}

-----------------------------------------------------------------------------
(* The state machine of one driver object and its port *)

Handles == 1..MaxOpens

\* The record of a public call.
Last(op, arg, o) ==
    [ op |-> op, arg |-> arg, ret |-> o.ret, val |-> o.val,
      called |-> o.io.called, command |-> o.io.command, data |-> o.io.data,
      calls |-> o.io.calls, wire |-> o.io.wire, response |-> o.io.response ]

NoLast == Last("none", 0, Outcome(0, "None", 0, NoCall(<<>>)))

\* The caller takes the result of the call; the next call can start.
Return ==
    /\ last # NoLast
    /\ last' = NoLast
    /\ trace' = <<>>
    /\ UNCHANGED <<motor, servo, opened, open, closes, rxbuf, motors, servos, wheels>>

PortInit ==
    /\ opened = 0
    /\ open = {}
    /\ closes = {}
    /\ rxbuf = <<>>
    /\ trace = <<>>
    /\ last = NoLast

\* The open handle that nothing refers to any more once connect() on object
\* d has had outcome o: the one d held, when self._serial was assigned a
\* new one.
Unreferenced(d, o, handles) ==
    IF o.ret = "True" /\ d.serial \in handles THEN {d.serial} ELSE {}

\* The port after connect() on object d with outcome o.  A serial.Serial
\* object closes its port when the runtime finalizes it; whether that
\* happens as soon as nothing refers to the object (finalizes) is up to
\* the runtime.
PortAfterConnect(d, o, finalizes) ==
    LET gone == IF finalizes THEN Unreferenced(d, o, open) ELSE {}
    IN  /\ opened' = IF o.ret = "True" THEN opened + 1 ELSE opened
        /\ open' = IF o.ret = "True" THEN (open \ gone) \cup {opened + 1} ELSE open
        /\ closes' = closes \cup gone
        /\ UNCHANGED rxbuf

\* The port after disconnect() on object d with outcome o.
PortAfterDisconnect(d, o) ==
    /\ closes' = IF o.io.calls = <<"close">>
                 THEN closes \cup {d.serial} ELSE closes
    /\ open' = IF o.io.calls = <<"close">> /\ o.ret # "raise"
               THEN open \ {d.serial} ELSE open
    /\ UNCHANGED <<opened, rxbuf>>

\* A command of the STS3215Motor with outcome o.
Command(op, arg, o) ==
    /\ last = NoLast
    /\ Len(o.io.rxbuf) <= MaxBuf
    /\ motor' = o.d
    /\ rxbuf' = o.io.rxbuf
    /\ last' = Last(op, arg, o)
    /\ UNCHANGED <<servo, opened, open, closes, motors, servos, wheels, trace>>

Connect ==
    /\ last = NoLast
    /\ \E port_ok \in BOOLEAN, finalizes \in BOOLEAN :
         LET o == connect(motor, rxbuf, port_ok, opened + 1)
         IN  /\ port_ok => opened < MaxOpens
             /\ motor' = o.d
             /\ last' = Last("connect", 0, o)
             /\ PortAfterConnect(motor, o, finalizes)
    /\ UNCHANGED <<servo, motors, servos, wheels, trace>>

Disconnect ==
    /\ last = NoLast
    /\ \E close_raises \in BOOLEAN :
         LET o == disconnect(motor, rxbuf, close_raises)
         IN  /\ motor' = o.d
             /\ last' = Last("disconnect", 0, o)
             /\ PortAfterDisconnect(motor, o)
    /\ UNCHANGED <<servo, motors, servos, wheels, trace>>

SetId ==
    \E new_id \in IdArgs, env \in EnvChoices :
        Command("set_id", new_id, set_id(motor, rxbuf, new_id, env))

SetPosition ==
    \E position \in PositionArgs, env \in EnvChoices :
        Command("set_position", position,
                set_position(motor, rxbuf, position, env))

SetSpeed ==
    \E speed \in SpeedArgs, env \in EnvChoices :
        Command("set_speed", speed, set_speed(motor, rxbuf, speed, env))

GetPosition ==
    \E env \in EnvChoices :
        Command("get_position", 0, get_position(motor, rxbuf, env))

GetSpeed ==
    \E env \in EnvChoices :
        Command("get_speed", 0, get_speed(motor, rxbuf, env))

Stop ==
    \E env \in EnvChoices :
        Command("stop", 0, stop(motor, rxbuf, env))

Init ==
    /\ motor \in {STS3215Motor(id) : id \in InitIds}
    /\ servo = ServoMotor(1)
    /\ motors = <<>>
    /\ servos = <<>>
    /\ wheels = <<>>
    /\ PortInit

Next ==
    \/ Connect
    \/ Disconnect
    \/ SetId
    \/ SetPosition
    \/ SetSpeed
    \/ GetPosition
    \/ GetSpeed
    \/ Stop
    \/ Return

Spec == Init /\ [][Next]_vars

-----------------------------------------------------------------------------
(* The state machine of one ServoMotor object and its port *)

ServoCall(op, arg, o) ==
    /\ last = NoLast
    /\ servo' = o.d
    /\ last' = Last(op, arg, o)
    /\ UNCHANGED <<motor, opened, open, closes, rxbuf, motors, servos, wheels, trace>>

ServoConnect ==
    /\ last = NoLast
    /\ \E port_ok \in BOOLEAN, finalizes \in BOOLEAN :
         LET o == connect(servo, rxbuf, port_ok, opened + 1)
         IN  /\ port_ok => opened < MaxOpens
             /\ servo' = o.d
             /\ last' = Last("connect", 0, o)
             /\ PortAfterConnect(servo, o, finalizes)
    /\ UNCHANGED <<motor, motors, servos, wheels, trace>>

ServoDisconnect ==
    /\ last = NoLast
    /\ \E close_raises \in BOOLEAN :
         LET o == disconnect(servo, rxbuf, close_raises)
         IN  /\ servo' = o.d
             /\ last' = Last("disconnect", 0, o)
             /\ PortAfterDisconnect(servo, o)
    /\ UNCHANGED <<motor, motors, servos, wheels, trace>>

ServoSetPosition ==
    \E position \in ServoPositionArgs, has_speed \in BOOLEAN, speed \in ServoSpeedArgs :
        ServoCall("set_position", position,
                  servo_set_position(servo, rxbuf, position, has_speed, speed))

ServoGetPosition == ServoCall("get_position", 0, servo_get_position(servo, rxbuf))

ServoStop == ServoCall("stop", 0, servo_stop(servo, rxbuf))

ServoInit ==
    /\ servo \in {ServoMotor(id) : id \in ServoIds}
    /\ motor = STS3215Motor(1)
    /\ motors = <<>>
    /\ servos = <<>>
    /\ wheels = <<>>
    /\ PortInit

ServoNext ==
    \/ ServoConnect
    \/ ServoDisconnect
    \/ ServoSetPosition
    \/ ServoGetPosition
    \/ ServoStop
    \/ Return

ServoSpec == ServoInit /\ [][ServoNext]_vars

-----------------------------------------------------------------------------
(* The group managers: MotorController and ServoController *)

MaxGroupOpens == 3

\* The identifiers given to add_motor, one call each, before the group is
\* used.
MotorIdLists == {<<>>, <<1>>, <<1, 2>>, <<1, 2, 3>>}

\* What the port does during each stop() of stop_all: the device answers,
\* it stays silent, or write() raises.
StopEnvChoices ==
    { e \in EnvChoices :
        /\ e.timing = "early"
        /\ \/ e.fault = "none"
           \/ e.fault = "write" /\ e.resp = <<>> }

\* The port as the group calls see it.
Port(n, o, c, buf) == [opened |-> n, open |-> o, closes |-> c, rxbuf |-> buf]

\* One call of a group or drive method on its i-th driver.
Called(op, i, args, ret) == [op |-> op, driver |-> i, args |-> args, ret |-> ret]

\* The port after connect() on object d with outcome o, in a runtime that
\* does or does not finalize the replaced serial.Serial object at once.
port_after_connect(port, d, o, finalizes) ==
    LET gone == IF finalizes THEN Unreferenced(d, o, port.open) ELSE {}
    IN  IF o.ret = "True"
        THEN [port EXCEPT !.opened = port.opened + 1,
                          !.open = (port.open \ gone) \cup {port.opened + 1},
                          !.closes = port.closes \cup gone]
        ELSE port

\* The port after disconnect() on object d with outcome o.
port_after_disconnect(port, d, o) ==
    IF o.io.calls = <<"close">>
    THEN [port EXCEPT !.closes = port.closes \cup {d.serial},
                      !.open = IF o.ret # "raise"
                               THEN port.open \ {d.serial} ELSE port.open]
    ELSE port

\* MotorController.add_motor on the list MotorController.motors
add_motor(drivers, motor_id) == Append(drivers, STS3215Motor(motor_id))

\* MotorController.__init__ followed by add_motor for each of motor_ids
MotorController(motor_ids) ==
    LET made[i \in 0..Len(motor_ids)] ==
            IF i = 0 THEN <<>> ELSE add_motor(made[i - 1], motor_ids[i])
    IN  made[Len(motor_ids)]

\* connect_all that gives up at the first driver that fails.
connect_all_until_failure(drivers, port, port_ok, finalizes) ==
    LET n == Len(drivers)
        loop[i \in 0..n] ==
            IF i = 0
            THEN [drivers |-> drivers, port |-> port, success |-> TRUE, trace |-> <<>>]
            ELSE LET g == loop[i - 1]
                     o == connect(g.drivers[i], g.port.rxbuf, port_ok[i],
                                  g.port.opened + 1)
                 IN  IF ~g.success THEN g
                     ELSE [ drivers |-> [g.drivers EXCEPT ![i] = o.d],
                            port    |-> port_after_connect(g.port, g.drivers[i], o, finalizes),
                            success |-> o.ret = "True",
                            trace   |-> Append(g.trace, Called("connect", i, <<>>, o.ret)) ]
        end == loop[n]
    IN  [ drivers |-> end.drivers, port |-> end.port,
          ret |-> IF end.success THEN "True" ELSE "False",
          trace |-> end.trace ]

\* MotorController.connect_all and ServoController.connect_all (the same
\* code): port_ok[i] says whether the i-th driver's port opens.
connect_all(drivers, port, port_ok, finalizes) ==
    LET n == Len(drivers)
        loop[i \in 0..n] ==
            IF i = 0
            THEN [drivers |-> drivers, port |-> port, success |-> TRUE, trace |-> <<>>]
            ELSE LET g == loop[i - 1]
                     o == connect(g.drivers[i], g.port.rxbuf, port_ok[i],
                                  g.port.opened + 1)
                 IN  [ drivers |-> [g.drivers EXCEPT ![i] = o.d],
                       port    |-> port_after_connect(g.port, g.drivers[i], o, finalizes),
                       success |-> IF o.ret # "True" THEN FALSE ELSE g.success,
                       trace   |-> Append(g.trace, Called("connect", i, <<>>, o.ret)) ]
        end == loop[n]
    IN  [ drivers |-> end.drivers, port |-> end.port,
          ret |-> IF end.success THEN "True" ELSE "False",
          trace |-> end.trace ]

\* MotorController.disconnect_all and ServoController.disconnect_all (the
\* same code): close_raises[i] says whether the i-th driver's close()
\* raises.  disconnect() lets the exception out and the loop has no
\* handler, so the exception ends the loop.
disconnect_all(drivers, port, close_raises) ==
    LET n == Len(drivers)
        loop[i \in 0..n] ==
            IF i = 0
            THEN [drivers |-> drivers, port |-> port, raised |-> FALSE, trace |-> <<>>]
            ELSE LET g == loop[i - 1]
                     o == disconnect(g.drivers[i], g.port.rxbuf, close_raises[i])
                 IN  IF g.raised THEN g
                     ELSE [ drivers |-> [g.drivers EXCEPT ![i] = o.d],
                            port    |-> port_after_disconnect(g.port, g.drivers[i], o),
                            raised  |-> o.ret = "raise",
                            trace   |-> Append(g.trace, Called("disconnect", i, <<>>, o.ret)) ]
        end == loop[n]
    IN  [ drivers |-> end.drivers, port |-> end.port,
          ret |-> IF end.raised THEN "raise" ELSE "None",
          trace |-> end.trace ]

\* MotorController.stop_all: env[i] is what the port does during the i-th
\* driver's stop().
stop_all(drivers, port, env) ==
    LET n == Len(drivers)
        loop[i \in 0..n] ==
            IF i = 0
            THEN [drivers |-> drivers, port |-> port, trace |-> <<>>]
            ELSE LET g == loop[i - 1]
                     o == stop(g.drivers[i], g.port.rxbuf, env[i])
                 IN  [ drivers |-> [g.drivers EXCEPT ![i] = o.d],
                       port    |-> [g.port EXCEPT !.rxbuf = o.io.rxbuf],
                       trace   |-> Append(g.trace, Called("stop", i, <<>>, o.ret)) ]
        end == loop[n]
    IN  [ drivers |-> end.drivers, port |-> end.port,
          ret |-> "None", trace |-> end.trace ]

\* ServoController.stop_all
servo_stop_all(drivers, port) ==
    LET n == Len(drivers)
        loop[i \in 0..n] ==
            IF i = 0
            THEN [drivers |-> drivers, port |-> port, trace |-> <<>>]
            ELSE LET g == loop[i - 1]
                     o == servo_stop(g.drivers[i], g.port.rxbuf)
                 IN  [ drivers |-> [g.drivers EXCEPT ![i] = o.d],
                       port    |-> g.port,
                       trace   |-> Append(g.trace, Called("stop", i, <<>>, o.ret)) ]
        end == loop[n]
    IN  [ drivers |-> end.drivers, port |-> end.port,
          ret |-> "None", trace |-> end.trace ]

-----------------------------------------------------------------------------
(* The state machine of a MotorController, its drivers and their port *)

\* The record of a group or drive call that returned ret (and val).
GroupLast(op, arg, ret, val) == Last(op, arg, Outcome(0, ret, val, NoCall(<<>>)))

\* The port after a group or drive call with result g.
PortAfterGroup(g) ==
    /\ g.port.opened <= MaxGroupOpens
    /\ Len(g.port.rxbuf) <= MaxBuf
    /\ opened' = g.port.opened
    /\ open' = g.port.open
    /\ closes' = g.port.closes
    /\ rxbuf' = g.port.rxbuf

\* A call of the MotorController with result g.
MotorGroupCall(op, g) ==
    /\ last = NoLast
    /\ motors' = g.drivers
    /\ trace' = g.trace
    /\ last' = GroupLast(op, 0, g.ret, 0)
    /\ PortAfterGroup(g)
    /\ UNCHANGED <<motor, servo, servos, wheels>>

ConnectAll ==
    \E port_ok \in [1..Len(motors) -> BOOLEAN], finalizes \in BOOLEAN :
        MotorGroupCall("connect_all",
                       connect_all(motors, Port(opened, open, closes, rxbuf),
                                   port_ok, finalizes))

DisconnectAll ==
    \E close_raises \in [1..Len(motors) -> BOOLEAN] :
        MotorGroupCall("disconnect_all",
                       disconnect_all(motors, Port(opened, open, closes, rxbuf), close_raises))

StopAll ==
    \E env \in [1..Len(motors) -> StopEnvChoices] :
        MotorGroupCall("stop_all",
                       stop_all(motors, Port(opened, open, closes, rxbuf), env))

GroupInit ==
    /\ motors \in {MotorController(motor_ids) : motor_ids \in MotorIdLists}
    /\ servos = <<>>
    /\ wheels = <<>>
    /\ motor = STS3215Motor(1)
    /\ servo = ServoMotor(1)
    /\ PortInit

GroupNext ==
    \/ ConnectAll
    \/ DisconnectAll
    \/ StopAll
    \/ Return

GroupSpec == GroupInit /\ [][GroupNext]_vars

-----------------------------------------------------------------------------
(* The three-wheel drive: OmniDrive *)

(* The velocities vx, vy and omega are floats in the program.  The model    *)
(* takes them from the multiples of one half, written as the integer       *)
(* number of halves, and computes in fixed point: every product and sum    *)
(* of the program is then a multiple of 1 / (ONE * TRIG).  On these inputs *)
(* the operators below return what the float code returns.                 *)

\* The float 1.0, in halves.
ONE == 2

\* cos and sin are held in units of 1 / TRIG.
TRIG == 100000

\* self.max_speed
max_speed == 1023

\* math.cos and math.sin of self.wheel_angles = [0, 2 pi / 3, 4 pi / 3].
cos_wheel_angle == <<100000, -50000, -50000>>
sin_wheel_angle == <<0, 86603, -86603>>

\* The sign of the rounding error of math.cos at the wheel angles:
\* math.cos(2 pi / 3) is -0.4999999999999998 and math.cos(4 pi / 3) is
\* -0.5000000000000004, where the exact value is -1/2.  The error decides
\* int() when the exact product is a whole number.
cos_rounding == <<0, 1, -1>>

\* The three wheels, in the order of self.servos and self.wheel_angles.
Wheels == 1..Len(cos_wheel_angle)

sign(x) == IF x > 0 THEN 1 ELSE IF x < 0 THEN -1 ELSE 0

abs(x) == IF x < 0 THEN -x ELSE x

\* max(lo, min(hi, x)) without the min.
clamp_from_below(lo, x, hi) == IF x < lo THEN lo ELSE x

\* max(lo, min(hi, x))
clamp(lo, x, hi) == IF x < lo THEN lo ELSE IF x > hi THEN hi ELSE x

\* round() in place of int(): the nearest whole number.
float_round(num, den, err) ==
    IF num >= 0 THEN (2 * num + den) \div (2 * den)
    ELSE -((2 * (-num) + den) \div (2 * den))

\* int() of the float num / den + err * (a few units in the last place):
\* truncation toward zero.
float_int(num, den, err) ==
    LET q == IF num >= 0 THEN num \div den ELSE -((-num) \div den)
    IN  IF num % den # 0 THEN q
        ELSE IF q > 0 /\ err < 0 THEN q - 1
        ELSE IF q < 0 /\ err > 0 THEN q + 1
        ELSE q

\* vx * cos(angle) + vy * sin(angle) + omega for wheel i, as the fraction
\* num / (ONE * TRIG) with the sign err of its float rounding error.
raw_wheel_speed(i, vx, vy, omega) ==
    [ num |-> vx * cos_wheel_angle[i] + vy * sin_wheel_angle[i] + omega * TRIG,
      err |-> sign(vx * cos_rounding[i]) ]

\* calculate_wheel_speeds without the limit of line 78 on the scaled speed.
calculate_wheel_speeds_unclamped(vx, vy, omega) ==
    LET cvx == clamp(-ONE, vx, ONE)
        cvy == clamp(-ONE, vy, ONE)
        comega == clamp(-ONE, omega, ONE)
    IN  [i \in Wheels |->
            LET wheel_speed == raw_wheel_speed(i, cvx, cvy, comega)
            IN  float_int(wheel_speed.num * max_speed, ONE * TRIG, wheel_speed.err)]

\* OmniDrive.calculate_wheel_speeds
calculate_wheel_speeds(vx, vy, omega) ==
    LET cvx == clamp(-ONE, vx, ONE)
        cvy == clamp(-ONE, vy, ONE)
        comega == clamp(-ONE, omega, ONE)
        scaled_speed(i) ==
            LET wheel_speed == raw_wheel_speed(i, cvx, cvy, comega)
            IN  float_int(wheel_speed.num * max_speed, ONE * TRIG, wheel_speed.err)
    IN  [i \in Wheels |-> clamp(-max_speed, scaled_speed(i), max_speed)]

\* The command of move with // taken as division that truncates.
wheel_command_truncating(wheel_speed) ==
    [ position |-> 2048 + (IF wheel_speed >= 0 THEN wheel_speed \div 2
                           ELSE -((-wheel_speed) \div 2)),
      speed |-> abs(wheel_speed) ]

\* The position and speed that move commands for one wheel: // is the
\* floor division of Python, as \div is.
wheel_command(wheel_speed) ==
    [ position |-> 2048 + (wheel_speed \div 2), speed |-> abs(wheel_speed) ]

\* ServoController.add_servo on the list ServoController.servos
add_servo(drivers, servo_id) == Append(drivers, ServoMotor(servo_id))

\* ServoController.__init__ followed by OmniDrive.__init__, which calls
\* add_servo for each of servo_ids and keeps the three objects.
OmniDrive(servo_ids) ==
    LET made[i \in 0..Len(servo_ids)] ==
            IF i = 0 THEN <<>> ELSE add_servo(made[i - 1], servo_ids[i])
    IN  made[Len(servo_ids)]

\* move with its return statement inside the loop.
move_returns_early(drivers, port, vx, vy, omega) ==
    LET wheel_speeds == calculate_wheel_speeds(vx, vy, omega)
        c == wheel_command(wheel_speeds[1])
        o == servo_set_position(drivers[1], port.rxbuf, c.position, TRUE, c.speed)
    IN  [ drivers |-> [drivers EXCEPT ![1] = o.d], port |-> port, ret |-> o.ret,
          trace |-> <<Called("set_position", 1, <<c.position, c.speed>>, o.ret)>> ]

\* OmniDrive.move
move(drivers, port, vx, vy, omega) ==
    LET wheel_speeds == calculate_wheel_speeds(vx, vy, omega)
        n == Len(cos_wheel_angle)
        loop[i \in 0..n] ==
            IF i = 0
            THEN [drivers |-> drivers, success |-> TRUE, trace |-> <<>>]
            ELSE LET g == loop[i - 1]
                     c == wheel_command(wheel_speeds[i])
                     o == servo_set_position(g.drivers[i], port.rxbuf,
                                             c.position, TRUE, c.speed)
                 IN  [ drivers |-> [g.drivers EXCEPT ![i] = o.d],
                       success |-> IF o.ret # "True" THEN FALSE ELSE g.success,
                       trace   |-> Append(g.trace,
                                          Called("set_position", i,
                                                 <<c.position, c.speed>>, o.ret)) ]
        end == loop[n]
    IN  [ drivers |-> end.drivers, port |-> port,
          ret |-> IF end.success THEN "True" ELSE "False",
          trace |-> end.trace ]

\* OmniDrive.move_forward
move_forward(drivers, port, speed) == move(drivers, port, 0, speed, 0)

\* OmniDrive.move_backward
move_backward(drivers, port, speed) == move(drivers, port, 0, -speed, 0)

\* move_left that passes speed where the code passes -speed.
move_left_unsigned(drivers, port, speed) == move(drivers, port, speed, 0, 0)

\* OmniDrive.move_left
move_left(drivers, port, speed) == move(drivers, port, -speed, 0, 0)

\* OmniDrive.move_right
move_right(drivers, port, speed) == move(drivers, port, speed, 0, 0)

\* OmniDrive.rotate_clockwise
rotate_clockwise(drivers, port, speed) == move(drivers, port, 0, 0, speed)

\* OmniDrive.rotate_counterclockwise
rotate_counterclockwise(drivers, port, speed) == move(drivers, port, 0, 0, -speed)

\* OmniDrive.connect
omni_connect(drivers, port, port_ok, finalizes) ==
    connect_all(drivers, port, port_ok, finalizes)

\* OmniDrive.disconnect
omni_disconnect(drivers, port, close_raises) ==
    disconnect_all(drivers, port, close_raises)

\* OmniDrive.stop
omni_stop(drivers, port) == servo_stop_all(drivers, port)

-----------------------------------------------------------------------------
(* The state machine of an OmniDrive, its ServoController and drivers *)

\* The identifiers given to OmniDrive.__init__.
ServoIdLists == {<<1, 2, 3>>}

\* The velocities given to move, in halves: a pure translation, a pure
\* rotation, mixtures that saturate one or all wheels, a mixture whose
\* exact wheel speed is a whole number, rest, and values outside [-1, 1].
MoveArgs ==
    { <<0, 2, 0>>, <<0, 0, -1>>, <<2, 0, 2>>, <<-2, 0, 1>>, <<1, -1, 0>>,
      <<0, 0, 0>>, <<3, -3, 3>> }

\* The speeds given to the direction helpers, in halves.
HelperSpeeds == {1, 2, 3}

\* Which of the three ports open during connect: all, all but the second,
\* the first only, none.
DrivePortOk ==
    { <<TRUE, TRUE, TRUE>>, <<TRUE, FALSE, TRUE>>, <<TRUE, FALSE, FALSE>>,
      <<FALSE, FALSE, FALSE>> }

\* Which close() raises during disconnect: none, the first, the second.
DriveCloseRaises ==
    { <<FALSE, FALSE, FALSE>>, <<TRUE, FALSE, FALSE>>, <<FALSE, TRUE, FALSE>> }

\* A call of the OmniDrive with result g.
DriveCall(op, arg, g) ==
    /\ last = NoLast
    /\ servos' = g.drivers
    /\ trace' = g.trace
    /\ last' = GroupLast(op, arg, g.ret, 0)
    /\ PortAfterGroup(g)
    /\ UNCHANGED <<motor, servo, motors, wheels>>

DriveConnect ==
    \E port_ok \in DrivePortOk, finalizes \in BOOLEAN :
        DriveCall("connect", 0,
                  omni_connect(servos, Port(opened, open, closes, rxbuf),
                               port_ok, finalizes))

DriveDisconnect ==
    \E close_raises \in DriveCloseRaises :
        DriveCall("disconnect", 0,
                  omni_disconnect(servos, Port(opened, open, closes, rxbuf), close_raises))

DriveStop ==
    DriveCall("stop", 0, omni_stop(servos, Port(opened, open, closes, rxbuf)))

Move ==
    \E v \in MoveArgs :
        DriveCall("move", v,
                  move(servos, Port(opened, open, closes, rxbuf), v[1], v[2], v[3]))

MoveForward ==
    \E speed \in HelperSpeeds :
        DriveCall("move_forward", speed,
                  move_forward(servos, Port(opened, open, closes, rxbuf), speed))

MoveBackward ==
    \E speed \in HelperSpeeds :
        DriveCall("move_backward", speed,
                  move_backward(servos, Port(opened, open, closes, rxbuf), speed))

MoveLeft ==
    \E speed \in HelperSpeeds :
        DriveCall("move_left", speed,
                  move_left(servos, Port(opened, open, closes, rxbuf), speed))

MoveRight ==
    \E speed \in HelperSpeeds :
        DriveCall("move_right", speed,
                  move_right(servos, Port(opened, open, closes, rxbuf), speed))

RotateClockwise ==
    \E speed \in HelperSpeeds :
        DriveCall("rotate_clockwise", speed,
                  rotate_clockwise(servos, Port(opened, open, closes, rxbuf), speed))

RotateCounterclockwise ==
    \E speed \in HelperSpeeds :
        DriveCall("rotate_counterclockwise", speed,
                  rotate_counterclockwise(servos, Port(opened, open, closes, rxbuf), speed))

DriveInit ==
    /\ servos \in {OmniDrive(servo_ids) : servo_ids \in ServoIdLists}
    /\ wheels = <<1, 2, 3>>
    /\ motors = <<>>
    /\ motor = STS3215Motor(1)
    /\ servo = ServoMotor(1)
    /\ PortInit

DriveNext ==
    \/ DriveConnect
    \/ DriveDisconnect
    \/ DriveStop
    \/ Move
    \/ MoveForward
    \/ MoveBackward
    \/ MoveLeft
    \/ MoveRight
    \/ RotateClockwise
    \/ RotateCounterclockwise
    \/ Return

DriveSpec == DriveInit /\ [][DriveNext]_vars

-----------------------------------------------------------------------------
(* The kinematics of the drive, which use no driver and no port *)

\* The velocities given to calculate_wheel_speeds, in halves: -1.5 .. 1.5.
Velocities == -3..3

\* A computation of the drive that returns val and changes nothing.
Computed(op, arg, val) ==
    /\ last = NoLast
    /\ last' = GroupLast(op, arg, "value", val)
    /\ UNCHANGED <<motor, servo, opened, open, closes, rxbuf, motors, servos, wheels, trace>>

CalculateWheelSpeeds ==
    \E vx \in Velocities, vy \in Velocities, omega \in Velocities :
        Computed("calculate_wheel_speeds", <<vx, vy, omega>>,
                 calculate_wheel_speeds(vx, vy, omega))

\* The body of the loop of move for one wheel, for every wheel speed
\* that calculate_wheel_speeds can return.
WheelCommand ==
    \E wheel_speed \in -max_speed..max_speed :
        Computed("wheel_command", wheel_speed, wheel_command(wheel_speed))

KinematicsNext ==
    \/ CalculateWheelSpeeds
    \/ WheelCommand
    \/ Return

KinematicsSpec == DriveInit /\ [][KinematicsNext]_vars

-----------------------------------------------------------------------------
(* The commands of move for every velocity *)

\* move(vx, vy, omega) for every velocity of the grid, inside and outside
\* [-1, 1].
MoveAny ==
    \E vx \in Velocities, vy \in Velocities, omega \in Velocities :
        DriveCall("move", <<vx, vy, omega>>,
                  move(servos, Port(opened, open, closes, rxbuf), vx, vy, omega))

MoveNext ==
    \/ MoveAny
    \/ Return

MoveSpec == DriveInit /\ [][MoveNext]_vars

-----------------------------------------------------------------------------
(* An OmniDrive on a ServoController that other code holds as well *)

\* The most drivers the shared controller comes to hold.
MaxServos == 4

\* OmniDrive.__init__ on a controller that holds `drivers`: a ValueError
\* unless three identifiers are given, else add_servo for each identifier;
\* `kept` are the places in ServoController.servos of the objects the drive
\* keeps in self.servos.
omni_init(drivers, servo_ids) ==
    IF Len(servo_ids) # 3
    THEN [drivers |-> drivers, kept |-> <<>>, ret |-> "raise"]
    ELSE LET made[i \in 0..3] ==
                 IF i = 0 THEN drivers ELSE add_servo(made[i - 1], servo_ids[i])
         IN  [ drivers |-> made[3],
               kept    |-> [i \in 1..3 |-> Len(drivers) + i],
               ret     |-> "None" ]

\* OmniDrive.move on the objects the drive keeps, which are some of the
\* objects of the controller.
move_kept(drivers, kept, port, vx, vy, omega) ==
    LET g == move([i \in 1..Len(kept) |-> drivers[kept[i]]], port, vx, vy, omega)
    IN  [ drivers |-> [k \in 1..Len(drivers) |->
                          IF \E i \in 1..Len(kept) : kept[i] = k
                          THEN g.drivers[CHOOSE i \in 1..Len(kept) : kept[i] = k]
                          ELSE drivers[k]],
          port |-> g.port, ret |-> g.ret, trace |-> g.trace ]

\* The controllers an OmniDrive is built on: a new one, and one on which
\* add_servo(4) was called before.
SharedControllers == {<<>>, add_servo(<<>>, 4)}

\* The identifier lists given to OmniDrive.__init__: three, two and four
\* identifiers.
SharedIdLists == {<<1, 2, 3>>, <<1, 2>>, <<1, 2, 3, 5>>}

\* The identifiers given to add_servo after the drive was built.
SharedServoIds == {6}

\* The velocities given to move on the shared controller, in halves.
SharedMoveArgs == {<<0, 2, 0>>, <<0, 0, 0>>}

\* Which of n ports open during connect: none, the first, the first two.
SharedPortOk(n) ==
    { [i \in 1..n |-> FALSE], [i \in 1..n |-> i = 1], [i \in 1..n |-> i <= 2] }

\* Which of n close() calls raise during disconnect: none, the first.
SharedCloseRaises(n) ==
    { [i \in 1..n |-> FALSE], [i \in 1..n |-> i = 1] }

\* OmniDrive(servo_controller, servo_ids)
Construct ==
    /\ last = NoLast
    /\ wheels = <<>>
    /\ \E servo_ids \in SharedIdLists :
         LET g == omni_init(servos, servo_ids)
         IN  /\ servos' = g.drivers
             /\ wheels' = g.kept
             /\ last' = GroupLast("OmniDrive", servo_ids, g.ret, 0)
    /\ trace' = <<>>
    /\ UNCHANGED <<motor, servo, opened, open, closes, rxbuf, motors>>

\* servo_controller.add_servo(servo_id), called by the code that holds the
\* controller.
AddServo ==
    /\ last = NoLast
    /\ Len(servos) < MaxServos
    /\ \E servo_id \in SharedServoIds :
         /\ servos' = add_servo(servos, servo_id)
         /\ last' = GroupLast("add_servo", servo_id, "ServoMotor", 0)
    /\ trace' = <<>>
    /\ UNCHANGED <<motor, servo, opened, open, closes, rxbuf, motors, wheels>>

SharedConnect ==
    /\ wheels # <<>>
    /\ \E port_ok \in SharedPortOk(Len(servos)), finalizes \in BOOLEAN :
         DriveCall("connect", 0,
                   omni_connect(servos, Port(opened, open, closes, rxbuf),
                                port_ok, finalizes))

SharedDisconnect ==
    /\ wheels # <<>>
    /\ \E close_raises \in SharedCloseRaises(Len(servos)) :
         DriveCall("disconnect", 0,
                   omni_disconnect(servos, Port(opened, open, closes, rxbuf),
                                   close_raises))

SharedStop ==
    /\ wheels # <<>>
    /\ DriveCall("stop", 0, omni_stop(servos, Port(opened, open, closes, rxbuf)))

SharedMove ==
    /\ wheels # <<>>
    /\ \E v \in SharedMoveArgs :
         DriveCall("move", v,
                   move_kept(servos, wheels, Port(opened, open, closes, rxbuf),
                             v[1], v[2], v[3]))

SharedInit ==
    /\ servos \in SharedControllers
    /\ wheels = <<>>
    /\ motors = <<>>
    /\ motor = STS3215Motor(1)
    /\ servo = ServoMotor(1)
    /\ PortInit

SharedNext ==
    \/ Construct
    \/ AddServo
    \/ SharedConnect
    \/ SharedDisconnect
    \/ SharedStop
    \/ SharedMove
    \/ Return

SharedSpec == SharedInit /\ [][SharedNext]_vars

-----------------------------------------------------------------------------
(* Properties of the STS3215Motor protocol *)

CommandOps == {"set_id", "set_position", "set_speed", "get_position", "get_speed", "stop"}

\* The value a command returns when it fails.
FailureOf(op) == IF op \in {"get_position", "get_speed"} THEN "None" ELSE "False"

\* C1: every packet _send_command(command, data) writes is
\* [0xFF, 0xFF, id, length, command, data..., checksum], id being the motor's
\* id when the call starts, length = len(data) + 2 and checksum the sum of
\* id, length, command and the data bytes modulo 256; id 1, command 0x03 and
\* data [0x00, 0x01] give FF FF 01 04 03 00 01 09.
C1_PacketFormat ==
    [][ \A i \in 1..Len(last'.wire) :
          LET p == last'.wire[i]
              n == Len(last'.data)
              id == motor.motor_id
          IN  /\ id \in 0..255
              /\ Len(p) = n + 6
              /\ p[1] = 255 /\ p[2] = 255
              /\ p[3] = id
              /\ p[4] = n + 2
              /\ p[5] = last'.command
              /\ SubSeq(p, 6, n + 5) = last'.data
              /\ p[n + 6] = (id + (n + 2) + last'.command + SumSeq(last'.data)) % 256
              /\ (id = 1 /\ last'.command = 3 /\ last'.data = <<0, 1>>)
                    => p = <<255, 255, 1, 4, 3, 0, 1, 9>>
      ]_vars

C1_Witness == last.wire = << <<255, 255, 1, 4, 3, 0, 1, 9>> >>

\* C2: a command on a motor whose is_connected is false returns its failure
\* value, makes no call on the transport, and leaves the motor's fields and
\* the receive buffer as they were.
C2_NotConnectedFails ==
    [][ (last'.op \in CommandOps /\ ~motor.is_connected)
          => /\ last'.ret = FailureOf(last'.op)
             /\ last'.calls = <<>>
             /\ last'.wire = <<>>
             /\ motor' = motor
             /\ rxbuf' = rxbuf
      ]_vars

\* get_position on a motor that was connected and then disconnected
C2_Witness ==
    /\ last.op = "get_position"
    /\ last.ret = "None"
    /\ ~motor.is_connected
    /\ motor.serial # 0
    /\ motor.serial \notin open

\* C3: set_position outside 0..4095, set_speed outside 0..1023 and set_id
\* outside 1..254 return False without reaching _send_command or the
\* transport and without changing the motor; the boundary values reach
\* _send_command with position and speed as two little-endian bytes, and the
\* packet handed to the transport carries them.
C3_RangeValidation ==
    [][ LET op == last'.op
            arg == last'.arg
            rejected == /\ last'.ret = "False"
                        /\ ~last'.called
                        /\ last'.calls = <<>>
                        /\ last'.wire = <<>>
                        /\ motor' = motor
                        /\ rxbuf' = rxbuf
            sent(command, data) ==
                        /\ last'.called
                        /\ last'.command = command
                        /\ last'.data = data
                        /\ (motor.is_connected /\ IsByte(motor.motor_id))
                              => /\ last'.calls # <<>>
                                 /\ last'.calls[1] = "write"
                        /\ Len(last'.calls) >= 2
                              => /\ Len(last'.wire) = 1
                                 /\ SubSeq(last'.wire[1], 6, 5 + Len(data)) = data
        IN  /\ (op = "set_position" /\ (arg < 0 \/ arg > 4095)) => rejected
            /\ (op = "set_speed" /\ (arg < 0 \/ arg > 1023)) => rejected
            /\ (op = "set_id" /\ (arg < 1 \/ arg > 254)) => rejected
            /\ (op = "set_position" /\ arg = 0) => sent(3, <<0, 0>>)
            /\ (op = "set_position" /\ arg = 4095) => sent(3, <<255, 15>>)
            /\ (op = "set_speed" /\ arg = 0) => sent(5, <<0, 0>>)
            /\ (op = "set_speed" /\ arg = 1023) => sent(5, <<255, 3>>)
            /\ (op = "set_id" /\ arg = 1) => sent(1, <<1>>)
            /\ (op = "set_id" /\ arg = 254) => sent(1, <<254>>)
      ]_vars

\* set_position(4095) written as FF FF 01 04 03 FF 0F ..
C3_Witness ==
    /\ last.op = "set_position"
    /\ last.arg = 4095
    /\ Len(last.wire) = 1
    /\ SubSeq(last.wire[1], 1, 7) = <<255, 255, 1, 4, 3, 255, 15>>

\* C4: set_position(p) / set_speed(s) with a valid argument returns True
\* exactly when _send_command got a non-empty response from the transport,
\* and then current_position = p / current_speed = s and nothing else
\* changed; otherwise (no response, or the transport raised) it returns
\* False and the motor is unchanged.
C4_SetUpdatesOnResponse ==
    [][ /\ (last'.op = "set_position" /\ last'.arg \in 0..4095)
              => /\ (last'.ret = "True") <=> (last'.response # <<>>)
                 /\ last'.ret \in {"True", "False"}
                 /\ last'.ret = "True"
                       => motor' = [motor EXCEPT !.current_position = last'.arg]
                 /\ last'.ret = "False" => motor' = motor
                 /\ last'.calls \notin {<<>>, <<"write", "flush", "in_waiting",
                                                 "in_waiting", "read">>}
                       => last'.ret = "False"
        /\ (last'.op = "set_speed" /\ last'.arg \in 0..1023)
              => /\ (last'.ret = "True") <=> (last'.response # <<>>)
                 /\ last'.ret \in {"True", "False"}
                 /\ last'.ret = "True"
                       => motor' = [motor EXCEPT !.current_speed = last'.arg]
                 /\ last'.ret = "False" => motor' = motor
                 /\ last'.calls \notin {<<>>, <<"write", "flush", "in_waiting",
                                                 "in_waiting", "read">>}
                       => last'.ret = "False"
      ]_vars

\* set_speed(1023) written and flushed, no answer at the poll: False, and the
\* speed is still the initial 0
C4_Witness ==
    /\ last.op = "set_speed"
    /\ last.arg = 1023
    /\ last.calls = <<"write", "flush", "in_waiting">>
    /\ last.ret = "False"
    /\ motor.current_speed = 0

\* C5: set_id(new_id) with 1 <= new_id <= 254 calls _send_command with
\* WRITE_ID (0x01) and data [new_id]; the packet is addressed to the id the
\* motor had; it returns True and motor_id becomes new_id exactly when the
\* response is non-empty, otherwise it returns False and motor_id is
\* unchanged.
C5_SetId ==
    [][ (last'.op = "set_id" /\ last'.arg \in 1..254)
          => /\ last'.called /\ last'.command = 1 /\ last'.data = <<last'.arg>>
             /\ \A i \in 1..Len(last'.wire) :
                   /\ Len(last'.wire[i]) = 7
                   /\ last'.wire[i][3] = motor.motor_id
                   /\ last'.wire[i][5] = 1
                   /\ last'.wire[i][6] = last'.arg
             /\ (last'.ret = "True") <=> (last'.response # <<>>)
             /\ last'.ret \in {"True", "False"}
             /\ last'.ret = "True" => motor' = [motor EXCEPT !.motor_id = last'.arg]
             /\ last'.ret = "False" => motor' = motor
      ]_vars

\* motor 1 renamed to 254: the packet went to id 1
C5_Witness ==
    /\ last.op = "set_id"
    /\ last.arg = 254
    /\ last.ret = "True"
    /\ motor.motor_id = 254
    /\ Len(last.wire) = 1
    /\ last.wire[1][3] = 1

\* C6: get_position / get_speed call _send_command with READ_POSITION (0x02)
\* / READ_SPEED (0x04) and no data; a response of at least 6 bytes gives
\* response[4] + 256 * response[5] (0-based), returned and stored in
\* current_position / current_speed; a missing or shorter response gives
\* None and leaves the motor unchanged.
C6_Reads ==
    [][ LET r == last'.response
            decoded == r[5] + 256 * r[6]
            with_position(v) == [motor EXCEPT !.current_position = v]
            with_speed(v) == [motor EXCEPT !.current_speed = v]
            reads(command, stored(_)) ==
                /\ last'.called /\ last'.command = command /\ last'.data = <<>>
                /\ \A i \in 1..Len(last'.wire) :
                      Len(last'.wire[i]) = 6 /\ last'.wire[i][5] = command
                /\ Len(r) >= 6
                      => /\ last'.ret = "int"
                         /\ last'.val = decoded
                         /\ motor' = stored(decoded)
                         /\ r = <<255, 255, 1, 4, 0, 16>> => last'.val = 4096
                /\ Len(r) < 6
                      => /\ last'.ret = "None"
                         /\ motor' = motor
        IN  /\ last'.op = "get_position" => reads(2, with_position)
            /\ last'.op = "get_speed" => reads(4, with_speed)
      ]_vars

C6_Witness ==
    /\ last.op = "get_position"
    /\ last.response = <<255, 255, 1, 4, 0, 16>>
    /\ last.ret = "int"
    /\ last.val = 4096
    /\ motor.current_position = 4096

\* C7: a driver's stop() returns True if and only if a non-empty response
\* was received, a True result comes with one STOP (0x06) packet of length
\* byte 2 written, and stop() changes no field of the driver.
C7_StopReportsResponse ==
    [][ last'.op = "stop"
          => /\ (last'.ret = "True") <=> (last'.response # <<>>)
             /\ last'.ret = "True"
                   => /\ Len(last'.wire) = 1
                      /\ Len(last'.wire[1]) = 6
                      /\ last'.wire[1][4] = 2
                      /\ last'.wire[1][5] = 6
             /\ motor' = motor
             /\ servo' = servo
      ]_vars

\* C8: connect() returns True with is_connected true and _serial the newly
\* opened handle when the transport opens; when opening fails it returns
\* False with is_connected false and _serial as it was; it never raises.
C8_Connect ==
    [][ last'.op = "connect"
          => /\ last'.ret \in {"True", "False"}
             /\ (open' # open)
                   => /\ last'.ret = "True"
                      /\ motor'.is_connected
                      /\ motor'.serial \in open' \ open
             /\ (open' = open)
                   => /\ last'.ret = "False"
                      /\ ~motor'.is_connected
                      /\ motor'.serial = motor.serial
      ]_vars

\* connect() failed on a motor that was connected: the flag is cleared
C8_Witness ==
    /\ last.op = "connect"
    /\ last.ret = "False"
    /\ ~motor.is_connected
    /\ motor.serial \in open

\* C9: disconnect() leaves is_connected false; on a driver whose
\* is_connected is false (the state any disconnect() leaves) it changes
\* nothing and does not call close(); close() is never called on a handle it
\* was already called on.
C9_DisconnectIdempotent ==
    [][ last'.op = "disconnect"
          => /\ ~motor'.is_connected
             /\ ~motor.is_connected
                   => /\ motor' = motor
                      /\ open' = open
                      /\ last'.calls = <<>>
             /\ last'.calls = <<"close">> => motor.serial \notin closes
      ]_vars

\* C10: no exception leaves a public operation of the driver.
C10_NoExceptionEscapes == last.ret # "raise"

-----------------------------------------------------------------------------
(* Properties of the group managers *)

\* The calls in the trace are one call of op on each of the n drivers, in
\* registration order.
OnEveryDriver(t, op, n) ==
    /\ Len(t) = n
    /\ \A i \in 1..n : t[i].op = op /\ t[i].driver = i

\* C11: connect_all() calls connect() on every registered driver, once each
\* and in registration order, whether or not an earlier driver failed; it
\* returns True exactly when every one of these calls returned True; and
\* each driver whose connect() succeeded is connected afterwards, the
\* others are not.
C11_ConnectAll ==
    [][ last'.op = "connect_all" =>
          /\ OnEveryDriver(trace', "connect", Len(motors))
          /\ last'.ret \in {"True", "False"}
          /\ (last'.ret = "True") <=>
                 (\A i \in 1..Len(motors) : trace'[i].ret = "True")
          /\ \A i \in 1..Len(motors) :
                 motors'[i].is_connected <=> (trace'[i].ret = "True")
      ]_vars

\* connect_all() on three drivers where only the second fails has returned
\* False with the first and the third connected.
C11_Witness ==
    /\ last.op = "connect_all"
    /\ last.ret = "False"
    /\ Len(motors) = 3
    /\ <<trace[1].ret, trace[2].ret, trace[3].ret>> = <<"True", "False", "True">>
    /\ motors[1].is_connected
    /\ ~motors[2].is_connected
    /\ motors[3].is_connected

\* C12: disconnect_all() calls disconnect() and stop_all() calls stop() on
\* every registered driver, in registration order, whatever happened to the
\* calls on the earlier drivers; after disconnect_all() no driver is
\* connected.
C12_AllDriversCalled ==
    [][ /\ last'.op = "disconnect_all" =>
              /\ OnEveryDriver(trace', "disconnect", Len(motors))
              /\ \A i \in 1..Len(motors) : ~motors'[i].is_connected
        /\ last'.op = "stop_all" =>
              OnEveryDriver(trace', "stop", Len(motors))
      ]_vars

-----------------------------------------------------------------------------
(* Properties of the drive *)

\* C13: for every wheel speed w in -1023..1023 the loop of move commands
\* the speed |w| and the position 2048 + floor(w / 2), the floor being the
\* largest whole number q with 2 q <= w (not w / 2 cut toward zero).
C13_WheelCommand ==
    last.op = "wheel_command" =>
        LET w == last.arg
            q == last.val.position - 2048
        IN  /\ last.val.speed = (IF w < 0 THEN -w ELSE w)
            /\ 2 * q <= w
            /\ w < 2 * q + 2

\* The wheel speed -7 has been turned into position 2044 and speed 7.
C13_Witness ==
    /\ last.op = "wheel_command"
    /\ last.arg = -7
    /\ last.val = [position |-> 2044, speed |-> 7]

\* C14: move(vx, vy, omega) calls set_position(position, speed) once on
\* each of the three drivers, in wheel order, with the command of that
\* wheel's speed; it makes no other call on a driver and none on the port;
\* it returns True exactly when all three calls returned True.
C14_Move ==
    [][ last'.op = "move" =>
          LET wheel_speeds ==
                  calculate_wheel_speeds(last'.arg[1], last'.arg[2], last'.arg[3])
          IN  /\ OnEveryDriver(trace', "set_position", 3)
              /\ \A i \in 1..3 :
                     /\ trace'[i].args = << wheel_command(wheel_speeds[i]).position,
                                            wheel_command(wheel_speeds[i]).speed >>
                     /\ servos'[i].servo_id = servos[i].servo_id
              /\ last'.ret \in {"True", "False"}
              /\ (last'.ret = "True") <=> (\A i \in 1..3 : trace'[i].ret = "True")
              /\ UNCHANGED <<opened, open, closes, rxbuf>>
      ]_vars

\* move(0, 1.0, 0) has returned True after commanding the wheels, in
\* order, to (2048, 0), (2490, 885) and (1605, 885).
C14_Witness ==
    /\ last.op = "move"
    /\ last.arg = <<0, ONE, 0>>
    /\ last.ret = "True"
    /\ <<trace[1].args, trace[2].args, trace[3].args>> =
           << <<2048, 0>>, <<2490, 885>>, <<1605, 885>> >>

\* C15: move while one of its drivers is not connected returns False, and
\* the set_position it calls on a driver that is not connected leaves
\* that driver's current_position and current_speed as they were.
C15_MoveNeedsConnection ==
    [][ last'.op = "move" /\ (\E i \in 1..3 : ~servos[i].is_connected) =>
          /\ last'.ret = "False"
          /\ \A i \in 1..3 :
                ~servos[i].is_connected =>
                    /\ trace'[i].ret = "False"
                    /\ servos'[i].current_position = servos[i].current_position
                    /\ servos'[i].current_speed = servos[i].current_speed
      ]_vars

\* The helper has done what move(v) does from the same state: the same
\* calls with the same results, the same return value, the same drivers
\* afterwards.
SameAsMove(v) ==
    LET m == move(servos, Port(opened, open, closes, rxbuf), v[1], v[2], v[3])
    IN  /\ trace' = m.trace
        /\ last'.ret = m.ret
        /\ servos' = m.drivers

\* C16: each direction helper called with s does what move does with one
\* component set: move_forward (0, s, 0), move_backward (0, -s, 0),
\* move_left (-s, 0, 0), move_right (s, 0, 0), rotate_clockwise (0, 0, s),
\* rotate_counterclockwise (0, 0, -s).
C16_Helpers ==
    [][ /\ last'.op = "move_forward" => SameAsMove(<<0, last'.arg, 0>>)
        /\ last'.op = "move_backward" => SameAsMove(<<0, -last'.arg, 0>>)
        /\ last'.op = "move_left" => SameAsMove(<<-last'.arg, 0, 0>>)
        /\ last'.op = "move_right" => SameAsMove(<<last'.arg, 0, 0>>)
        /\ last'.op = "rotate_clockwise" => SameAsMove(<<0, 0, last'.arg>>)
        /\ last'.op = "rotate_counterclockwise" => SameAsMove(<<0, 0, -last'.arg>>)
      ]_vars

\* move_left(0.5) has commanded the wheels as move(-0.5, 0, 0) does: wheel
\* speeds -511, 255, 255.
C16_Witness ==
    /\ last.op = "move_left"
    /\ last.arg = 1
    /\ <<trace[1].args, trace[2].args, trace[3].args>> =
           << <<1792, 511>>, <<2175, 255>>, <<2175, 255>> >>

\* C17 as stated: calculate_wheel_speeds(0, 1, 0) returns [0, 886, -886].
C17_AsStated ==
    last.op = "calculate_wheel_speeds" /\ last.arg = <<0, ONE, 0>> =>
        last.val = <<0, 886, -886>>

\* C17: calculate_wheel_speeds(0, 1, 0) returns [0, 885, -885]: the second
\* wheel gets 1023 sin(120 deg) = 1023 sqrt(3) / 2 cut toward zero, that is
\* the whole number r with (2 r)^2 <= 3 * 1023^2 < (2 (r + 1))^2; the third
\* wheel gets -r and the first 0.
C17_ForwardWheelSpeeds ==
    last.op = "calculate_wheel_speeds" /\ last.arg = <<0, ONE, 0>> =>
        LET r == last.val[2]
        IN  /\ last.val = <<0, 885, -885>>
            /\ (2 * r) * (2 * r) <= 3 * max_speed * max_speed
            /\ 3 * max_speed * max_speed < (2 * (r + 1)) * (2 * (r + 1))
            /\ last.val[3] = -r
            /\ last.val[1] = 0

\* calculate_wheel_speeds(0, 1, 0) has returned 885 for the second wheel.
C17_Witness ==
    /\ last.op = "calculate_wheel_speeds"
    /\ last.arg = <<0, ONE, 0>>
    /\ last.val[2] = 885

\* The input x after max(-1.0, min(1.0, x)).
Limited(x) == IF x > ONE THEN ONE ELSE IF x < -ONE THEN -ONE ELSE x

\* The raw value of wheel i for the limited inputs is above 1.0.
RawAboveOne(i, v) ==
    LET raw == raw_wheel_speed(i, Limited(v[1]), Limited(v[2]), Limited(v[3]))
    IN  raw.num > ONE * TRIG \/ (raw.num = ONE * TRIG /\ raw.err > 0)

\* The raw value of wheel i for the limited inputs is below -1.0.
RawBelowMinusOne(i, v) ==
    LET raw == raw_wheel_speed(i, Limited(v[1]), Limited(v[2]), Limited(v[3]))
    IN  raw.num < -(ONE * TRIG) \/ (raw.num = -(ONE * TRIG) /\ raw.err < 0)

\* C18: calculate_wheel_speeds works on its inputs limited to [-1, 1]; a
\* wheel whose raw value is above 1.0 gets 1023 and one whose raw value is
\* below -1.0 gets -1023, whatever the other wheels get; every wheel speed
\* returned is in -1023..1023.
C18_Saturation ==
    last.op = "calculate_wheel_speeds" =>
        /\ last.val = calculate_wheel_speeds(Limited(last.arg[1]), Limited(last.arg[2]),
                                             Limited(last.arg[3]))
        /\ \A i \in 1..3 :
              /\ last.val[i] \in -1023..1023
              /\ RawAboveOne(i, last.arg) => last.val[i] = 1023
              /\ RawBelowMinusOne(i, last.arg) => last.val[i] = -1023

\* calculate_wheel_speeds(1.5, 0, 1.0), whose first wheel has the raw value
\* 2.0 and whose other wheels have 0.5, has returned [1023, 511, 511].
C18_Witness ==
    /\ last.op = "calculate_wheel_speeds"
    /\ last.arg = <<3, 0, ONE>>
    /\ RawAboveOne(1, last.arg)
    /\ last.val = <<1023, 511, 511>>

-----------------------------------------------------------------------------
(* Properties of the drivers' state *)

\* C19: the current_position of a driver is in 0..4095 and its
\* current_speed is in 0..1023, in every state.
C19_StateRanges ==
    /\ motor.current_position \in 0..4095
    /\ motor.current_speed \in 0..1023

\* A driver's motor_id changes only in a set_id call that returned True
\* after the device answered.
IdChangesOnlyBySetId ==
    [][ motor'.motor_id # motor.motor_id =>
          /\ last'.op = "set_id"
          /\ last'.ret = "True"
          /\ last'.response # <<>>
          /\ motor'.motor_id = last'.arg
      ]_vars

\* C20: the motor_id of a driver is in 1..254 in every state from its
\* construction on.
C20_IdInRange == motor.motor_id \in 1..254


-----------------------------------------------------------------------------
(* Properties of an OmniDrive on a shared ServoController *)

\* The places of the controller's drivers that the calls in t acted on.
ActedOn(t) == {t[k].driver : k \in 1..Len(t)}

\* C21 (as stated): once the drive is built its controller holds exactly
\* three drivers, and stop() of the drive, which is stop_all() of the
\* controller, acts on exactly the objects the drive commands.
C21_ExactlyThreeDrivers ==
    wheels # <<>> =>
        /\ Len(servos) = 3
        /\ (last.op = "stop" => ActedOn(trace) = {wheels[i] : i \in 1..Len(wheels)})

-----------------------------------------------------------------------------
(* Properties of one exchange with the device *)

\* The transport calls of one _send_command that runs to its end, in their
\* order: the packet is written and flushed, in_waiting is tested, and read
\* is called with in_waiting as its size.
Exchange == <<"write", "flush", "in_waiting", "in_waiting", "read">>

\* How many of the calls in s are to `name`.
Times(s, name) == Cardinality({k \in 1..Len(s) : s[k] = name})

\* C22: a command makes the transport calls of one exchange up to the point
\* where it returns: at most one write, after it at most one test of the
\* receive buffer and at most one read, and at most one packet on the wire,
\* whether the device answered, stayed silent or the transport raised.
C22_SingleExchange ==
    last.op \in CommandOps =>
        /\ Len(last.calls) <= Len(Exchange)
        /\ last.calls = SubSeq(Exchange, 1, Len(last.calls))
        /\ Times(last.calls, "write") <= 1
        /\ Times(last.calls, "read") <= 1
        /\ Len(last.wire) <= 1
        /\ (last.response # <<>> => last.calls = Exchange)

\* stop on a connected motor, the device silent: one write, one test of the
\* receive buffer, no read
C22_Witness ==
    /\ last.op = "stop"
    /\ last.ret = "False"
    /\ last.calls = <<"write", "flush", "in_waiting">>
    /\ Len(last.wire) = 1
    /\ motor.is_connected

\* Sequence s begins with the non-empty sequence p.
BeginsWith(s, p) == p # <<>> /\ Len(s) >= Len(p) /\ SubSeq(s, 1, Len(p)) = p

\* C23 (as stated): a command reports success only on bytes the device sent
\* after the command's packet was written: the response it takes never
\* begins with the bytes that were waiting in the receive buffer when the
\* command started.
C23_FreshResponse ==
    [][ (last = NoLast /\ last'.op \in CommandOps /\ last'.ret # FailureOf(last'.op))
            => ~BeginsWith(last'.response, rxbuf)
      ]_vars

-----------------------------------------------------------------------------
(* Properties of the transport handles *)

\* C24 (as stated): every handle that was opened and not closed is the one
\* the driver holds, and the driver is connected, so that disconnect()
\* would close it.
C24_NoHandleLeaked ==
    /\ open \subseteq {motor.serial}
    /\ (open # {} => motor.is_connected)

-----------------------------------------------------------------------------
(* Properties of the commands of move *)

\* C25: for every velocity, inside or outside [-1, 1], move commands each
\* of the three wheels once, with a speed in 0..1023 and a position in
\* 1536..2559; at speed 1023 the position is 1536 or 2559.
C25_CommandsInRange ==
    last.op = "move" =>
        /\ Len(trace) = 3
        /\ \A k \in 1..Len(trace) :
             /\ trace[k].op = "set_position"
             /\ trace[k].args[1] \in 1536..2559
             /\ trace[k].args[2] \in 0..1023
             /\ trace[k].args[1] \in 0..4095
             /\ (trace[k].args[2] = 1023 => trace[k].args[1] \in {1536, 2559})

\* move(1.5, 1.0, 0): the wheel speeds 1023, 374 and -1023 give both
\* extremes, position 2559 and position 1536, at speed 1023
C25_Witness ==
    /\ last.op = "move"
    /\ last.arg = <<3, 2, 0>>
    /\ trace[1].args = <<2559, 1023>>
    /\ trace[3].args = <<1536, 1023>>

=============================================================================
